---- MODULE Spec2Model ----
(***************************************************************************)
(* Model of the vaultuno Python SDK client (vaultuno/vaultuno.py,          *)
(* vaultuno/entity.py, vaultuno/common.py): the retry-wrapped logical      *)
(* request, the pagination aggregator, the polling helper, the entity      *)
(* attribute access, the base-URL resolution, and two clients served the   *)
(* same recorded answers.                                                  *)
(***************************************************************************)
EXTENDS Integers, Sequences, FiniteSets, TLC

VARIABLES
    _retry,         \* self._retry: configured max retry count
    _use_raw_data,  \* self._use_raw_data
    op,             \* the public/private operation being executed and its arguments
    pc,             \* position of the single calling thread
    phase,          \* which logical request of the operation is in flight
    req,            \* the logical request in flight: method, path, data
    retry,          \* local `retry` of _request
    resp,           \* last HTTP response received
    ret,            \* outcome of the last finished logical request
    log,            \* status codes answered to the logical request in flight
    sleeps,         \* retry sleeps of the logical request in flight
    waited,         \* time slept by the retry loop of the logical request in flight
    page,           \* local `page` of _get_all_pages
    total_pages,    \* local `total_pages` of _get_all_pages
    entities,       \* local `entities` of _get_all_pages
    fetched,        \* history: content of every page response consumed, in order
    reqs,           \* history: every logical request issued by the operation, in order
    poll_retry,     \* local `retry` of _wait_for_account
    account,        \* local `account` of _wait_for_account
    polls,          \* history: poll sleeps, fetches returned to the poll loop, non-matching ones
    last_event,     \* history: kind of the latest externally visible event
    result,         \* outcome of the operation
    ent,            \* an Entity whose attributes are read
    raw0,           \* history: the raw mapping the Entity was built on
    attr,           \* the attribute name of the latest access
    attr_out,       \* outcome of the latest access
    arg_base_url,   \* base_url argument of VUAPI.__init__
    arg_api_version, \* api_version argument of VUAPI.__init__
    environ,        \* os.environ: VU_API_BASE_URL and VU_API_VERSION
    _base_url,      \* self._base_url
    _api_version,   \* self._api_version
    url,            \* url of the latest _request, with the path it was built for
    upc,            \* new, constructed, failed (the constructor raised) or built
    run,            \* free: the server answers at will; first: its answers are recorded;
                    \* second: a second client is served the recorded answers again
    script,         \* the recorded answers of the server, in order
    http,           \* history: every HTTP request sent in a recorded or replayed run
    first,          \* what the first run did: operation, raw-data mode, requests, outcome
    twin            \* what the second run differs in: endpoint (the operation) or mode

client_vars == <<_retry, _use_raw_data, op, pc, phase, req, retry, resp, ret, log,
                 sleeps, waited, page, total_pages, entities, fetched, reqs, poll_retry,
                 account, polls, last_event, result>>
entity_vars == <<ent, raw0, attr, attr_out>>
url_vars == <<arg_base_url, arg_api_version, environ, _base_url, _api_version, url, upc>>
script_vars == <<run, script, http, first, twin>>
vars == <<client_vars, entity_vars, url_vars, script_vars>>

(***************************************************************************)
(* Bounds of the model.                                                    *)
(***************************************************************************)
MaxRetry == 2        \* configured retry counts range over -1..MaxRetry
MaxPages == 2        \* totalPages reported by the server ranges over 0..MaxPages
MaxPoll == 2         \* attempt budgets of a direct _wait_for_account call: 0..MaxPoll
MaxScript == 11      \* answers recorded in a first run

(***************************************************************************)
(* Program constants.                                                      *)
(***************************************************************************)
DefaultRetry == 3        \* self._retry
RetryWait == 3           \* self._retry_wait
PageSize == 100          \* "size": 100
PollRetry == 10          \* _wait_for_account(retry=10)
RetryCodes == {429, 504} \* self._retry_codes

RebalanceState == {"MATCHING", "SELLING", "BUYING", "CANCELING", "READY"}
READY == "READY"

(***************************************************************************)
(* Decoded values and outcomes.                                            *)
(***************************************************************************)
None == [type |-> "None"]
Dict(o) == [type |-> "dict", obj |-> o]
List(s) == [type |-> "list", items |-> s]

Return(v) == [kind |-> "return", value |-> v, exc |-> "none", status |-> 0,
              code |-> "", message |-> ""]
Raise(e, st, c, m) == [kind |-> "raise", value |-> None, exc |-> e, status |-> st,
                       code |-> c, message |-> m]
NoOutcome == [kind |-> "none", value |-> None, exc |-> "none", status |-> 0,
              code |-> "", message |-> ""]

(***************************************************************************)
(* HTTP responses: a status code and a body.  A body is empty, a text that *)
(* is not JSON, or the text of a JSON object.                              *)
(***************************************************************************)
EmptyBody == [kind |-> "empty"]
TextBody(s) == [kind |-> "text", text |-> s]
JsonBody(o) == [kind |-> "json", obj |-> o]

\* JSON leaves carry their Python type: str, int, list
S(s) == [t |-> "str", v |-> s]
I(n) == [t |-> "int", n |-> n]
L(q) == [t |-> "list", items |-> q]

\* sub in s, for Python strings
Contains(s, sub) ==
    \E i \in 1..(Len(s) - Len(sub) + 1) : SubSeq(s, i, i + Len(sub) - 1) = sub

\* 'code' in resp.text: the text of a JSON object shows its keys and its strings
CodeInText(body) ==
    CASE body.kind = "empty" -> FALSE
      [] body.kind = "text" -> Contains(body.text, "code")
      [] body.kind = "json" ->
            \E k \in DOMAIN body.obj :
                \/ Contains(k, "code")
                \/ body.obj[k].t = "str" /\ Contains(body.obj[k].v, "code")

\* resp.raise_for_status() raises HTTPError for 4xx and 5xx
RaisesForStatus(status) == status >= 400 /\ status < 600
Is2xx(status) == status >= 200 /\ status < 300

\* resp.json()
Json(body) ==
    IF body.kind = "json" THEN Return(Dict(body.obj))
    ELSE Raise("JSONDecodeError", 0, "", "")

\* APIError(error, http_error): __init__ reads error['message']
APIError(error, status) ==
    IF "message" \in DOMAIN error
    THEN Raise("APIError", status, error.code.v, error.message.v)
    ELSE Raise("KeyError", 0, "", "")

\* lines 133-135 of _one_request
DecodeBody(body) ==
    IF body.kind # "empty" THEN Json(body) ELSE Return(None)

\* a plausible slip in line 125: the last unit of budget is never used
ShouldRetry_OffByOne(status, retry_left) == status \in RetryCodes /\ retry_left > 1

\* line 125: resp.status_code in retry_codes and retry > 0
ShouldRetry(status, retry_left) == status \in RetryCodes /\ retry_left > 0

\* lines 127-132: the failure of a response that is not retried; when the text
\* holds 'code' but the decoded object has no such key, no branch raises and
\* control leaves the except block
ErrorOutcome(r) ==
    IF CodeInText(r.body)
    THEN LET error == Json(r.body) IN
         IF error.kind = "raise" THEN error
         ELSE IF "code" \in DOMAIN error.value.obj
              THEN APIError(error.value.obj, r.status)
              ELSE DecodeBody(r.body)
    ELSE Raise("HTTPError", r.status, "", "")

\* VUAPI._one_request, given the response of self._session.request
_one_request(r, retry_left) ==
    IF RaisesForStatus(r.status)
    THEN IF ShouldRetry(r.status, retry_left)
         THEN Raise("RetryException", 0, "", "")
         ELSE ErrorOutcome(r)
    ELSE DecodeBody(r.body)

(***************************************************************************)
(* Entity (vaultuno/entity.py).                                            *)
(***************************************************************************)
Entity(cls, raw) == [type |-> "Entity", cls |-> cls, raw |-> raw]

\* a plausible slip in line 17: 'Date' in key
EndsWithDate_Anywhere(key) == Contains(key, "Date") \/ Contains(key, "date")

\* key.endswith('Date')
EndsWithDate(key) == Len(key) >= 4 /\ SubSeq(key, Len(key) - 3, Len(key)) = "Date"

Digits == {"0", "1", "2", "3", "4", "5", "6", "7", "8", "9"}
IsDigit(s, i) == SubSeq(s, i, i) \in Digits

\* ISO8601YMD.match(val): re.compile(r'\d{4}-\d{2}-\d{2}T') anchored at the start
ISO8601YMD(val) ==
    /\ Len(val) >= 11
    /\ \A i \in {1, 2, 3, 4, 6, 7, 9, 10} : IsDigit(val, i)
    /\ SubSeq(val, 5, 5) = "-" /\ SubSeq(val, 8, 8) = "-"
    /\ SubSeq(val, 11, 11) = "T"

DigitVal(c) == CASE c = "0" -> 0 [] c = "1" -> 1 [] c = "2" -> 2 [] c = "3" -> 3
                 [] c = "4" -> 4 [] c = "5" -> 5 [] c = "6" -> 6 [] c = "7" -> 7
                 [] c = "8" -> 8 [] c = "9" -> 9
TwoDigits(s, i) == 10 * DigitVal(SubSeq(s, i, i)) + DigitVal(SubSeq(s, i + 1, i + 1))

\* pd.Timestamp(val) on a string that matched ISO8601YMD: the parser rejects a
\* month outside 01..12 and a day outside 01..31
Timestamp(val) ==
    IF TwoDigits(val, 6) \in 1..12 /\ TwoDigits(val, 9) \in 1..31
    THEN Return([t |-> "Timestamp", v |-> val])
    ELSE Raise("ValueError", 0, "", "")

\* names object.__getattribute__ resolves on an Entity without __getattr__
ObjectAttrs == {"_raw", "__class__", "__dict__", "__init__", "__getattr__", "__repr__"}

\* super().__getattribute__(key)
ObjectGetAttribute(self, key) ==
    IF key \in ObjectAttrs
    THEN Return(IF key = "_raw" THEN self.raw ELSE [t |-> "attr", name |-> key])
    ELSE Raise("AttributeError", 0, "", "")

\* Entity.__getattr__(self, key)
__getattr__(self, key) ==
    IF self.raw.type # "dict" THEN Raise("TypeError", 0, "", "")
    ELSE IF key \in DOMAIN self.raw.obj
         THEN LET val == self.raw.obj[key] IN
              IF val.t = "str" /\ EndsWithDate(key) /\ ISO8601YMD(val.v)
              THEN Timestamp(val.v)
              ELSE Return(val)
         ELSE ObjectGetAttribute(self, key)

\* the attribute access obj.key: normal lookup first, __getattr__ when it fails;
\* a dict or None has no such attribute
GetAttr(obj, key) ==
    IF obj.type = "Entity"
    THEN IF key \in ObjectAttrs THEN ObjectGetAttribute(obj, key)
         ELSE __getattr__(obj, key)
    ELSE Raise("AttributeError", 0, "", "")

(***************************************************************************)
(* The server: what it may answer to each logical request.                 *)
(***************************************************************************)
AccountIds == {"a1", "a2"}
E1 == Dict([id |-> S("e1")])
E2 == Dict([id |-> S("e2")])
Contents == {<<>>, <<E1>>, <<E2, E1>>}

ErrorBodies ==
    { EmptyBody,
      TextBody("Gateway Timeout"),
      TextBody("<code>504</code>"),
      JsonBody([code |-> S("E1"), message |-> S("denied")]),
      JsonBody([code |-> S("E1")]),
      JsonBody([message |-> S("bad code")]),
      JsonBody([message |-> S("oops")]) }

SuccessBodies(ph, o) ==
    CASE ph = "plain" -> {EmptyBody, TextBody("OK"), JsonBody([id |-> S("e1")])}
      [] ph = "page" ->
            {EmptyBody} \cup
            {JsonBody([totalPages |-> I(n), content |-> L(c)]) :
                n \in 0..MaxPages, c \in Contents}
      [] ph = "trigger" -> {EmptyBody, JsonBody([id |-> S(o.account_id)])}
      [] ph = "fetch" ->
            {JsonBody([id |-> S(o.account_id)])} \cup
            {JsonBody([id |-> S(o.account_id), rebalanceState |-> S(st)]) :
                st \in RebalanceState}

Statuses == {200, 302, 404, 429, 504}

Responses(ph, o) ==
    {[status |-> st, body |-> b] :
        st \in {x \in Statuses : Is2xx(x)}, b \in SuccessBodies(ph, o)}
    \cup
    {[status |-> st, body |-> b] :
        st \in {x \in Statuses : ~Is2xx(x)}, b \in ErrorBodies}

\* the answers a recorded run draws from: one retryable and one other failure,
\* a success of each kind the operation tells apart
Scripted(ph, o) ==
    {r \in Responses(ph, o) :
        \/ r.status = 429 /\ r.body = EmptyBody
        \/ r.status = 404 /\ r.body = JsonBody([code |-> S("E1"), message |-> S("denied")])
        \/ /\ r.status = 200
           /\ \/ ph = "trigger" /\ r.body = EmptyBody
              \/ /\ ph = "page" /\ r.body # EmptyBody
                 /\ r.body.obj.content = L(<<E1>>)
              \/ /\ ph = "fetch"
                 /\ r.body \in {JsonBody([id |-> S(o.account_id),
                                          rebalanceState |-> S("BUYING")]),
                                JsonBody([id |-> S(o.account_id),
                                          rebalanceState |-> S(READY)])}}

NoResponse == [status |-> 0, body |-> EmptyBody]
NoRequest == [method |-> "", path |-> "", params |-> None, json |-> None]
NoOp == [name |-> "", account_id |-> "", path |-> "", method |-> "", data |-> None,
         budget |-> 0, state |-> ""]
NoPolls == [sleeps |-> 0, fetches |-> 0, nomatch |-> 0]
NoRun == [op |-> NoOp, raw |-> FALSE, http |-> <<>>, result |-> NoOutcome]

(***************************************************************************)
(* VUAPI._request: lines 98-105 set the request up, the loop of lines      *)
(* 106-117 is OneRequest and RetrySleep.                                   *)
(***************************************************************************)
\* opts of lines 98-101: data travels as query parameters or as a JSON body
Opts(method, path, data) ==
    IF method \in {"GET", "DELETE"}
    THEN [method |-> method, path |-> path, params |-> data, json |-> None]
    ELSE [method |-> method, path |-> path, params |-> None, json |-> data]

\* a plausible slip in line 103: what the previous request left is carried on
InitialRetry_CarriedOver(configured) ==
    IF reqs = <<>> THEN (IF configured < 0 THEN 0 ELSE configured) ELSE retry

\* lines 103-105
InitialRetry(configured) == IF configured < 0 THEN 0 ELSE configured

\* entering _request(method, path, data)
StartRequest(ph, method, path, data) ==
    /\ phase' = ph
    /\ req' = Opts(method, path, data)
    /\ reqs' = Append(reqs, Opts(method, path, data))
    /\ retry' = InitialRetry(_retry)
    /\ log' = <<>>
    /\ sleeps' = 0
    /\ waited' = 0
    /\ resp' = NoResponse
    /\ pc' = IF InitialRetry(_retry) >= 0 THEN "request" ELSE "returned"
    /\ ret' = IF InitialRetry(_retry) >= 0 THEN NoOutcome ELSE Return(None)

\* what the server may answer to the HTTP request about to be sent
Answers ==
    CASE run = "free" -> Responses(phase, op)
      [] run = "first" -> IF Len(script) < MaxScript THEN Scripted(phase, op) ELSE {}
      [] run = "second" -> IF Len(http) < Len(script) THEN {script[Len(http) + 1]} ELSE {}

\* one pass of the loop body, line 108: the HTTP exchange and _one_request
OneRequest ==
    /\ pc = "request"
    /\ \E r \in Answers :
          LET out == _one_request(r, retry) IN
          /\ log' = Append(log, r.status)
          /\ IF out.exc = "RetryException"
             THEN pc' = "retry_sleep" /\ ret' = ret /\ resp' = NoResponse
             ELSE pc' = "returned" /\ ret' = out /\ resp' = r
          /\ script' = IF run = "first" THEN Append(script, r) ELSE script
    /\ http' = IF run = "free" THEN http ELSE Append(http, req)
    /\ last_event' = req.method
    /\ UNCHANGED <<entity_vars, url_vars, run, first, twin, _retry, _use_raw_data, op, phase, req, retry, sleeps, waited, page,
                   total_pages, entities, fetched, reqs, poll_retry, account, polls,
                   result>>

\* the except branch, lines 109-117
RetrySleep ==
    /\ pc = "retry_sleep"
    /\ sleeps' = sleeps + 1
    /\ waited' = waited + RetryWait
    /\ retry' = retry - 1
    /\ last_event' = "retry_sleep"
    /\ IF retry - 1 >= 0
       THEN pc' = "request" /\ ret' = ret
       ELSE pc' = "returned" /\ ret' = Return(None)
    /\ UNCHANGED <<entity_vars, url_vars, script_vars, _retry, _use_raw_data, op, phase, req, resp, log, page, total_pages,
                   entities, fetched, reqs, poll_retry, account, polls, result>>

\* leaving the operation with its outcome
Finish(out) ==
    /\ pc' = "done"
    /\ result' = out
    /\ UNCHANGED <<phase, req, reqs, retry, resp, log, sleeps, waited, ret>>

\* the operation goes on with its next logical request
Continue(ph, method, path, data) ==
    /\ StartRequest(ph, method, path, data)
    /\ UNCHANGED result

\* VUAPI._response_wrapper
_response_wrapper(obj, entity) ==
    IF _use_raw_data THEN obj ELSE Entity(entity, obj)

(***************************************************************************)
(* A single logical request: _get, _post, _delete called on their own.     *)
(***************************************************************************)
Methods == {"GET", "POST", "DELETE"}

Call_request ==
    /\ pc = "idle"
    /\ \E m \in Methods :
          /\ op' = [NoOp EXCEPT !.name = "_request", !.method = m, !.path = "/users/me"]
          /\ Continue("plain", m, "/users/me", None)
    /\ UNCHANGED <<entity_vars, url_vars, script_vars, _retry, _use_raw_data, page, total_pages, entities, fetched,
                   poll_retry, account, polls, last_event>>

RequestReturn ==
    /\ pc = "returned" /\ phase = "plain"
    /\ Finish(ret)
    /\ UNCHANGED <<entity_vars, url_vars, script_vars, _retry, _use_raw_data, op, page, total_pages, entities, fetched,
                   poll_retry, account, polls, last_event>>

(***************************************************************************)
(* VUAPI._get_all_pages and the list_* operations.                         *)
(***************************************************************************)
\* lines 145-150: paging.update(data) lets the caller's keys win
Paging(p, data) ==
    LET paging == [size |-> I(PageSize), page |-> I(p)] IN
    IF data.type = "dict" /\ DOMAIN data.obj # {}
    THEN Dict([k \in DOMAIN paging \cup DOMAIN data.obj |->
                 IF k \in DOMAIN data.obj THEN data.obj[k] ELSE paging[k]])
    ELSE Dict(paging)

\* a plausible slip in line 154: the new page is put in front
Accumulate_Prepend(ents, content) == content \o ents

\* line 154
Accumulate(ents, content) == ents \o content

\* what the operation hands back once the loop has ended
ListResult(o, ents) ==
    CASE o.name = "_get_all_pages" -> List(ents)
      [] o.name = "list_portfolios" ->
            List([i \in 1..Len(ents) |-> _response_wrapper(ents[i], "Portfolio")])
      [] o.name = "list_broker_accounts" ->
            List([i \in 1..Len(ents) |-> _response_wrapper(ents[i], "BrokerAccount")])

\* the loop test of line 144, with the request of lines 145-151 or the return
PageLoop(o, p, tp, ents) ==
    IF p < tp
    THEN Continue("page", "GET", o.path, Paging(p, o.data))
    ELSE Finish(Return(ListResult(o, ents)))

Datas == {None, Dict(<<>>), Dict([accountId |-> S("a1")]), Dict([page |-> I(1)]),
          Dict([size |-> I(10), accountId |-> S("a1")])}

StartPages(o) ==
    /\ pc = "idle"
    /\ op' = o
    /\ page' = 0
    /\ total_pages' = 1
    /\ entities' = <<>>
    /\ PageLoop(o, 0, 1, <<>>)
    /\ UNCHANGED <<entity_vars, url_vars, script_vars, _retry, _use_raw_data, fetched, poll_retry, account, polls,
                   last_event>>

Call_get_all_pages ==
    \E d \in Datas :
        StartPages([NoOp EXCEPT !.name = "_get_all_pages", !.path = "/portfolios",
                                !.data = d])

list_portfolios ==
    \E a \in AccountIds :
        StartPages([NoOp EXCEPT !.name = "list_portfolios", !.path = "/portfolios",
                                !.account_id = a, !.data = Dict([accountId |-> S(a)])])

list_broker_accounts ==
    StartPages([NoOp EXCEPT !.name = "list_broker_accounts", !.path = "/accounts"])

\* lines 151-155, then the loop test again
PageReturn ==
    /\ pc = "returned" /\ phase = "page"
    /\ IF ret.kind = "raise"
       THEN Finish(ret) /\ UNCHANGED <<page, total_pages, entities, fetched>>
       ELSE IF ret.value.type # "dict"
       THEN /\ Finish(Raise("TypeError", 0, "", ""))
            /\ UNCHANGED <<page, total_pages, entities, fetched>>
       ELSE IF ~({"totalPages", "content"} \subseteq DOMAIN ret.value.obj)
       THEN /\ Finish(Raise("KeyError", 0, "", ""))
            /\ UNCHANGED <<page, total_pages, entities, fetched>>
       ELSE LET r == ret.value.obj IN
            /\ total_pages' = r.totalPages.n
            /\ entities' = Accumulate(entities, r.content.items)
            /\ fetched' = Append(fetched, r.content.items)
            /\ page' = page + 1
            /\ PageLoop(op, page + 1, r.totalPages.n, Accumulate(entities, r.content.items))
    /\ UNCHANGED <<entity_vars, url_vars, script_vars, _retry, _use_raw_data, op, poll_retry, account, polls, last_event>>

(***************************************************************************)
(* VUAPI._wait_for_account and the operations that poll.                   *)
(***************************************************************************)
\* a plausible slip in line 182: one attempt too many
WaitLoop_OneMore(left) ==
    IF left >= 0
    THEN /\ pc' = "poll_sleep"
         /\ UNCHANGED <<phase, req, reqs, retry, resp, log, sleeps, waited, ret, result>>
    ELSE Finish(Return(None))

\* the loop test of line 182, with the sleep to come or the return of line 188
WaitLoop(left) ==
    IF left > 0
    THEN /\ pc' = "poll_sleep"
         /\ UNCHANGED <<phase, req, reqs, retry, resp, log, sleeps, waited, ret, result>>
    ELSE Finish(Return(None))

\* the triggering POST of lines 262, 266, 270 and 299
StartTrigger(o) ==
    /\ pc = "idle"
    /\ op' = o
    /\ Continue("trigger", "POST", o.path, None)
    /\ UNCHANGED <<entity_vars, url_vars, script_vars, _retry, _use_raw_data, page, total_pages, entities, fetched,
                   poll_retry, account, polls, last_event>>

Polling(name, a, path) ==
    [NoOp EXCEPT !.name = name, !.account_id = a, !.path = path, !.method = "POST",
                 !.budget = PollRetry, !.state = READY]

rebalance_broker_account ==
    \E a \in AccountIds :
        StartTrigger(Polling("rebalance_broker_account", a,
                             "/accounts/" \o a \o "/rebalance"))

liquidate_broker_account ==
    \E a \in AccountIds :
        StartTrigger(Polling("liquidate_broker_account", a,
                             "/accounts/" \o a \o "/liquidate"))

\* a plausible other reading of line 270: a cancel endpoint of its own
cancel_rebalancing_Distinct ==
    \E a \in AccountIds :
        StartTrigger(Polling("cancel_rebalancing", a,
                             "/accounts/" \o a \o "/cancel"))

cancel_rebalancing ==
    \E a \in AccountIds :
        StartTrigger(Polling("cancel_rebalancing", a,
                             "/accounts/" \o a \o "/rebalance"))

liquidate_portfolio ==
    \E a \in AccountIds :
        StartTrigger(Polling("liquidate_portfolio", a, "/portfolios/p1/liquidate"))

\* _wait_for_account called on its own, with any budget and expected state
Call_wait_for_account ==
    /\ pc = "idle"
    /\ \E a \in AccountIds, m \in 0..MaxPoll, st \in RebalanceState :
          /\ op' = [NoOp EXCEPT !.name = "_wait_for_account", !.account_id = a,
                                !.budget = m, !.state = st]
          /\ poll_retry' = m
          /\ WaitLoop(m)
    /\ UNCHANGED <<entity_vars, url_vars, script_vars, _retry, _use_raw_data, page, total_pages, entities, fetched,
                   account, polls, last_event>>

\* the trigger has returned or raised: lines 263, 267, 271, 300
TriggerReturn ==
    /\ pc = "returned" /\ phase = "trigger"
    /\ IF ret.kind = "raise"
       THEN Finish(ret) /\ UNCHANGED poll_retry
       ELSE poll_retry' = op.budget /\ WaitLoop(op.budget)
    /\ UNCHANGED <<entity_vars, url_vars, script_vars, _retry, _use_raw_data, op, page, total_pages, entities, fetched,
                   account, polls, last_event>>

\* line 183, then get_broker_account enters _request (line 258)
PollSleep ==
    /\ pc = "poll_sleep"
    /\ polls' = [polls EXCEPT !.sleeps = @ + 1]
    /\ last_event' = "poll_sleep"
    /\ Continue("fetch", "GET", "/accounts/" \o op.account_id, None)
    /\ UNCHANGED <<entity_vars, url_vars, script_vars, _retry, _use_raw_data, op, page, total_pages, entities, fetched,
                   poll_retry, account>>

\* line 185: account.rebalanceState == state
StateMatches(acc, st) ==
    LET got == GetAttr(acc, "rebalanceState") IN
    IF got.kind = "raise" THEN got
    ELSE Return([t |-> "bool", b |-> (got.value = S(st))])

\* get_broker_account has returned or raised: line 259, then lines 185-188
FetchReturn ==
    /\ pc = "returned" /\ phase = "fetch"
    /\ IF ret.kind = "raise"
       THEN Finish(ret) /\ UNCHANGED <<account, poll_retry, polls>>
       ELSE LET acc == _response_wrapper(ret.value, "BrokerAccount")
                m == StateMatches(acc, op.state) IN
            /\ account' = acc
            /\ IF m.kind = "raise"
               THEN /\ Finish(m)
                    /\ polls' = [polls EXCEPT !.fetches = @ + 1]
                    /\ UNCHANGED poll_retry
               ELSE IF m.value.b
               THEN /\ Finish(Return(acc))
                    /\ polls' = [polls EXCEPT !.fetches = @ + 1]
                    /\ UNCHANGED poll_retry
               ELSE /\ poll_retry' = poll_retry - 1
                    /\ polls' = [polls EXCEPT !.fetches = @ + 1, !.nomatch = @ + 1]
                    /\ WaitLoop(poll_retry - 1)
    /\ UNCHANGED <<entity_vars, url_vars, script_vars, _retry, _use_raw_data, op, page, total_pages, entities, fetched,
                   last_event>>

(***************************************************************************)
(* The client: constructed with a retry count and a raw-data mode, it      *)
(* executes one operation.                                                 *)
(***************************************************************************)
InitClient ==
    /\ op = NoOp
    /\ pc = "idle"
    /\ phase = "none"
    /\ req = NoRequest
    /\ retry = 0
    /\ resp = NoResponse
    /\ ret = NoOutcome
    /\ log = <<>>
    /\ sleeps = 0
    /\ waited = 0
    /\ page = 0
    /\ total_pages = 0
    /\ entities = <<>>
    /\ fetched = <<>>
    /\ reqs = <<>>
    /\ poll_retry = 0
    /\ account = None
    /\ polls = NoPolls
    /\ last_event = "none"
    /\ result = NoOutcome

NoEntity ==
    /\ ent = None
    /\ raw0 = <<>>
    /\ attr = ""
    /\ attr_out = NoOutcome

NoURL ==
    /\ arg_base_url = None
    /\ arg_api_version = None
    /\ environ = [VU_API_BASE_URL |-> None, VU_API_VERSION |-> None]
    /\ _base_url = None
    /\ _api_version = None
    /\ url = None
    /\ upc = "new"

NoScript ==
    /\ run = "free"
    /\ script = <<>>
    /\ http = <<>>
    /\ first = NoRun
    /\ twin = "none"

Init ==
    /\ _retry \in -1..MaxRetry
    /\ _use_raw_data \in BOOLEAN
    /\ InitClient
    /\ NoEntity
    /\ NoURL
    /\ NoScript

Next ==
    \/ Call_request
    \/ Call_get_all_pages
    \/ list_portfolios
    \/ list_broker_accounts
    \/ rebalance_broker_account
    \/ liquidate_broker_account
    \/ cancel_rebalancing
    \/ liquidate_portfolio
    \/ Call_wait_for_account
    \/ OneRequest
    \/ RetrySleep
    \/ RequestReturn
    \/ PageReturn
    \/ TriggerReturn
    \/ PollSleep
    \/ FetchReturn

Spec == Init /\ [][Next]_vars

(***************************************************************************)
(* Properties of one logical request.                                      *)
(***************************************************************************)
\* the logical request in flight has ended: _request returned or raised
Ended == pc = "returned" \/ (pc = "done" /\ phase = "plain")

\* retryable responses answered before the last response
Retried == Len(log) - 1

\* the decoded payload of a body that is empty or JSON
Payload(body) == IF body.kind = "empty" THEN None ELSE Dict(body.obj)

\* C1: when the server answers N retryable responses (429 or 504) and then a
\* 2xx response, with N <= R, the call returns the decoded payload of the 2xx
\* response after N+1 attempts and N sleeps of RetryWait each; no retryable
\* response ends the call while budget is left.
C1_RetryThenSuccess ==
    /\ (Ended /\ Len(log) <= InitialRetry(_retry)) => resp.status \notin RetryCodes
    /\ (Ended /\ Is2xx(resp.status) /\ resp.body.kind # "text") =>
          /\ Retried <= InitialRetry(_retry)
          /\ \A i \in 1..Retried : log[i] \in RetryCodes
          /\ log[Len(log)] = resp.status
          /\ ret = Return(Payload(resp.body))
          /\ sleeps = Retried
          /\ waited = Retried * RetryWait

C1_Witness ==
    /\ pc = "returned" /\ phase = "plain" /\ _retry = 2
    /\ log = <<429, 504, 200>>
    /\ ret = Return(Dict([id |-> S("e1")]))
    /\ sleeps = 2 /\ waited = 6

\* C2: when every response is retryable the call makes R+1 attempts and R
\* sleeps, then raises the failure of the last response (APIError or
\* HTTPError) and never returns a value; a negative R behaves as 0.
C2_ExhaustionRaises ==
    (Ended /\ resp.status \in RetryCodes) =>
        /\ Len(log) = InitialRetry(_retry) + 1
        /\ sleeps = InitialRetry(_retry)
        /\ ret.kind = "raise"
        /\ ret.exc \in {"APIError", "HTTPError"}
        /\ ret.status = resp.status

\* a structured error object: top-level fields code and message
IsEnvelope(body) ==
    body.kind = "json" /\ {"code", "message"} \subseteq DOMAIN body.obj

\* C3: every non-2xx response that is not retried ends the call with an
\* error: an APIError carrying code and message when the body holds a
\* structured error object, the HTTP failure otherwise.  Stated for the 4xx
\* and 5xx statuses, the ones raise_for_status turns into an HTTP failure.
C3_NonSuccessRaises ==
    (Ended /\ RaisesForStatus(resp.status)) =>
        /\ ret.kind = "raise"
        /\ IF IsEnvelope(resp.body)
           THEN /\ ret.exc = "APIError"
                /\ ret.code = resp.body.obj.code.v
                /\ ret.message = resp.body.obj.message.v
           ELSE ret.exc = "HTTPError" /\ ret.status = resp.status

\* C6: only a retryable status with budget left leads to a sleep and a
\* reissue; a non-2xx response with another status ends the logical request
\* at once with a failure, whatever budget is left.  Stated for the 4xx and
\* 5xx statuses, the ones raise_for_status turns into an HTTP failure.
C6_OtherStatusFailsAtOnce ==
    /\ pc = "retry_sleep" => (log[Len(log)] \in RetryCodes /\ retry > 0)
    /\ (Ended /\ RaisesForStatus(resp.status) /\ resp.status \notin RetryCodes) =>
          /\ \A i \in 1..Retried : log[i] \in RetryCodes
          /\ sleeps = Retried
          /\ ret.kind = "raise"

(***************************************************************************)
(* Properties of the pagination aggregator.                                *)
(***************************************************************************)
PagedOps == {"_get_all_pages", "list_portfolios", "list_broker_accounts"}

RECURSIVE Flatten(_)
Flatten(pages) ==
    IF pages = <<>> THEN <<>> ELSE Head(pages) \o Flatten(Tail(pages))

\* the entity class a list_* operation wraps its entities in
WrapperOf(name) ==
    CASE name = "list_portfolios" -> "Portfolio"
      [] name = "list_broker_accounts" -> "BrokerAccount"

\* what the caller gets for the raw entities `ents`
Expected(name, ents) ==
    IF name = "_get_all_pages" THEN ents
    ELSE [i \in 1..Len(ents) |->
             IF _use_raw_data THEN ents[i] ELSE Entity(WrapperOf(name), ents[i])]

\* C4: when all page fetches succeed the result is the concatenation, in the
\* order the pages were fetched (page 0, 1, 2, ...), of the content of every
\* fetched page, nothing dropped, duplicated or reordered; a first response
\* with totalPages 0 or 1 and empty content yields an empty sequence.
C4_Concatenation ==
    (op.name \in PagedOps /\ pc = "done" /\ result.kind = "return") =>
        /\ Len(fetched) = page /\ page >= 1
        /\ result.value = List(Expected(op.name, Flatten(fetched)))
        /\ (page = 1 /\ fetched[1] = <<>>) => result.value = List(<<>>)

C4_Witness ==
    /\ op.name = "list_portfolios" /\ pc = "done" /\ ~_use_raw_data
    /\ fetched = << <<E2, E1>>, <<E1>> >>
    /\ result = Return(List(<<Entity("Portfolio", E2), Entity("Portfolio", E1),
                              Entity("Portfolio", E1)>>))

\* C9: page requests go out one after the other for page 0, 1, 2, ...; the
\* k-th carries page = k and size = 100 with every parameter of the caller,
\* whatever mapping the caller supplies; page 0 is always requested and page
\* k+1 exactly when k+1 is below the totalPages of the response to page k.
C9_PageRequests ==
    op.name \in PagedOps =>
        /\ Len(reqs) >= 1
        /\ \A k \in 1..Len(reqs) :
              /\ reqs[k].method = "GET" /\ reqs[k].path = op.path
              /\ reqs[k].params.obj.page = I(k - 1)
              /\ reqs[k].params.obj.size = I(PageSize)
              /\ op.data.type = "dict" =>
                    \A key \in DOMAIN op.data.obj :
                        reqs[k].params.obj[key] = op.data.obj[key]
        /\ Len(reqs) \in {page, page + 1}
        /\ (pc = "done" /\ result.kind = "return") =>
              (Len(reqs) = page /\ ~(page < total_pages))
        /\ (pc # "done" /\ page >= 1) => page < total_pages

(***************************************************************************)
(* Properties of the polling helper.                                       *)
(***************************************************************************)
TriggeredOps == {"rebalance_broker_account", "liquidate_broker_account",
                 "cancel_rebalancing", "liquidate_portfolio"}
PollingOps == TriggeredOps \cup {"_wait_for_account"}

\* a fetched account snapshot that reports a rebalance state
IsSnapshot(v) == v.type = "dict" /\ "rebalanceState" \in DOMAIN v.obj

\* the snapshot a returned account stands for
SnapshotOf(v) == IF v.type = "Entity" THEN v.raw ELSE v

\* get_broker_account has handed a snapshot to the poll loop, which has acted on it
Polled ==
    /\ op.name \in PollingOps /\ phase = "fetch" /\ pc \in {"poll_sleep", "done"}
    /\ ret.kind = "return" /\ IsSnapshot(ret.value)

\* C5: with budget M, when the K-th fetch is the first whose rebalanceState
\* equals the expected state the helper returns the snapshot of that fetch
\* and fetches no more; when none of M fetches matches it makes M fetches
\* and returns None, never raising; a non-absent result of a triggered
\* operation is in state READY.
C5_PollingResult ==
    /\ (Polled /\ ret.value.obj.rebalanceState = S(op.state)) =>
          /\ pc = "done"
          /\ result.kind = "return"
          /\ SnapshotOf(result.value) = ret.value
          /\ polls.fetches = polls.nomatch + 1
          /\ polls.fetches <= op.budget
    /\ (Polled /\ ret.value.obj.rebalanceState # S(op.state)) =>
          /\ result.kind # "raise"
          /\ polls.fetches = polls.nomatch
          /\ (pc = "done") <=> (polls.fetches = op.budget)
          /\ (pc = "done") => result = Return(None)
    /\ (op.name \in TriggeredOps /\ pc = "done" /\ result.kind = "return"
            /\ result.value # None) =>
          /\ IsSnapshot(SnapshotOf(result.value))
          /\ SnapshotOf(result.value).obj.rebalanceState = S(READY)

\* the logical requests of a triggered operation: one POST of the trigger,
\* then GETs of the account
LogicalSequence ==
    /\ Len(reqs) >= 1
    /\ reqs[1].method = "POST" /\ reqs[1].path = op.path
    /\ \A k \in 2..Len(reqs) :
          reqs[k].method = "GET" /\ reqs[k].path = "/accounts/" \o op.account_id
    /\ Len(reqs) = 1 + polls.sleeps
    /\ polls.sleeps <= op.budget
    /\ polls.fetches \in {polls.sleeps - 1, polls.sleeps}
    /\ phase = "trigger" => polls.sleeps = 0
    /\ (phase = "trigger" /\ pc = "poll_sleep") => ret.kind = "return"
    /\ (phase = "trigger" /\ pc = "done") => result.kind = "raise"
    /\ (phase = "fetch" /\ pc = "request" /\ log = <<>>) => last_event = "poll_sleep"
    /\ pc = "poll_sleep" => last_event \in {"POST", "GET"}

\* C10 as amended: counting logical requests (each may take several HTTP
\* attempts with retry sleeps between them), a triggered operation issues the
\* trigger POST once, then alternating pairs (poll sleep, account fetch)
\* beginning with a sleep, at most max_attempts pairs; nothing is fetched
\* before the trigger has returned and a poll sleep has passed, and when the
\* trigger raises no poll sleep and no fetch follows.
C10_LogicalSequence == op.name \in TriggeredOps => LogicalSequence

C10_Witness ==
    /\ op.name = "cancel_rebalancing" /\ pc = "done" /\ result = Return(None)
    /\ polls = [sleeps |-> PollRetry, fetches |-> PollRetry, nomatch |-> PollRetry]
    /\ Len(reqs) = PollRetry + 1

\* C10: the externally visible events of a triggered operation are the POST,
\* answered successfully, exactly once, then alternating pairs (sleep of the
\* interval, GET of the account) beginning with a sleep, at most
\* max_attempts pairs; when the trigger fails no sleep and no fetch occurs.
C10_EventSequence ==
    op.name \in TriggeredOps =>
        /\ LogicalSequence
        /\ sleeps = 0 /\ Len(log) <= 1

(***************************************************************************)
(* Reading the attributes of an Entity.                                    *)
(***************************************************************************)
FieldNames == {"name", "endDate", "mandate", "_raw"}
FieldValues == {S("Some Account"), S("2021-03-04T05:06:07"), S("2021-13-04T05:06:07"),
                S("2021-03-04"), I(5)}
RawMappings == UNION {[d -> FieldValues] : d \in SUBSET FieldNames}
AccessNames == FieldNames \cup {"weight"}

InitEntity ==
    /\ _retry = DefaultRetry
    /\ _use_raw_data = FALSE
    /\ InitClient
    /\ NoURL
    /\ NoScript
    /\ \E m \in RawMappings :
          /\ ent = _response_wrapper(Dict(m), "BrokerAccount")
          /\ raw0 = m
    /\ attr = ""
    /\ attr_out = NoOutcome

\* entity.<k>
Access ==
    /\ \E k \in AccessNames :
          /\ attr' = k
          /\ attr_out' = GetAttr(ent, k)
    /\ UNCHANGED <<client_vars, url_vars, script_vars, ent, raw0>>

NextEntity == Access

SpecEntity == InitEntity /\ [][NextEntity]_vars

\* the names and values of the model, by what the claim says of them
DateNames == {"endDate"}
IsoValues == {"2021-03-04T05:06:07", "2021-13-04T05:06:07"}
Parseable == {"2021-03-04T05:06:07"}

\* what the claim promises for the access of name k on the mapping m
Promised(m, k) ==
    IF k \in DOMAIN m
    THEN IF m[k].t = "str" /\ k \in DateNames /\ m[k].v \in IsoValues
         THEN Return([t |-> "Timestamp", v |-> m[k].v])
         ELSE Return(m[k])
    ELSE Raise("AttributeError", 0, "", "")

\* C7: a key of the raw mapping reads as its raw value, but a string under a
\* key ending in 'Date' that matches the prefix YYYY-MM-DDT reads as a parsed
\* timestamp; a key absent from the mapping fails with AttributeError; no
\* access changes the raw mapping.
C7_EveryKey ==
    attr # "" => (attr_out = Promised(raw0, attr) /\ ent.raw = Dict(raw0))

\* C7 as amended: the same, for the names that are not attributes of the
\* Entity object itself (_raw and the names every object has, which read as
\* those attributes), and with the timestamp parser's error surfacing when
\* the matching string is no valid date-time.
C7_FieldKeys ==
    (attr # "" /\ attr \notin ObjectAttrs) =>
        /\ ent.raw = Dict(raw0)
        /\ IF /\ attr \in DOMAIN raw0 /\ raw0[attr].t = "str" /\ attr \in DateNames
              /\ raw0[attr].v \in IsoValues \ Parseable
           THEN attr_out = Raise("ValueError", 0, "", "")
           ELSE attr_out = Promised(raw0, attr)

C7_Witness ==
    /\ attr = "endDate" /\ "endDate" \in DOMAIN raw0 /\ "name" \notin DOMAIN raw0
    /\ raw0["endDate"] = S("2021-03-04T05:06:07")
    /\ attr_out = Return([t |-> "Timestamp", v |-> "2021-03-04T05:06:07"])

(***************************************************************************)
(* The base URL and the request URL (vaultuno/common.py, VUAPI.__init__,   *)
(* VUAPI._request lines 87-89).  A str is S(s), an unset value None.       *)
(***************************************************************************)
StartsWith(s, prefix) == Len(s) >= Len(prefix) /\ SubSeq(s, 1, Len(prefix)) = prefix

\* s.rstrip('/')
RECURSIVE RStrip(_)
RStrip(s) ==
    IF Len(s) > 0 /\ SubSeq(s, Len(s), Len(s)) = "/"
    THEN RStrip(SubSeq(s, 1, Len(s) - 1))
    ELSE s

\* URL(v): a str that must start with http://, https://, ws:// or wss://
URL(v0) ==
    IF \E scheme \in {"http://", "https://", "ws://", "wss://"} : StartsWith(v0, scheme)
    THEN Return(S(v0))
    ELSE Raise("ValueError", 0, "", "")

DefaultBaseUrl == "http://localhost:8080"
DefaultApiVersion == "v1"

\* common.get_base_url
get_base_url(env) ==
    URL(RStrip(IF env.VU_API_BASE_URL # None THEN env.VU_API_BASE_URL.v
               ELSE DefaultBaseUrl))

\* Python truthiness of a str or None
Truthy(x) == x # None /\ x.v # ""

\* common.get_api_version
get_api_version(version, env) ==
    LET v == IF Truthy(version) THEN version ELSE env.VU_API_VERSION IN
    IF v = None THEN S(DefaultApiVersion) ELSE v

\* line 73: URL(base_url or get_base_url())
ResolveBaseUrl(arg, env) ==
    IF Truthy(arg) THEN URL(arg.v)
    ELSE LET b == get_base_url(env) IN
         IF b.kind = "raise" THEN b ELSE URL(b.value.v)

\* line 89: URL(base_url + '/' + version + path)
RequestUrl(base, version, path) == URL(base.v \o "/" \o version.v \o path)

BaseUrls == {"http://h", "http://h/", "https://h//", "wss://h", "ftp://h"}
Versions == {"v2"}
Paths == {"/users/me", "/accounts"}

InitURL ==
    /\ _retry = DefaultRetry
    /\ _use_raw_data = FALSE
    /\ InitClient
    /\ NoEntity
    /\ NoScript
    /\ arg_base_url \in {None} \cup {S(u) : u \in BaseUrls}
    /\ arg_api_version \in {None} \cup {S(v) : v \in Versions}
    /\ \E b \in {None} \cup {S(u) : u \in BaseUrls},
          v \in {None} \cup {S("v3")} :
          environ = [VU_API_BASE_URL |-> b, VU_API_VERSION |-> v]
    /\ _base_url = None
    /\ _api_version = None
    /\ url = None
    /\ upc = "new"

\* VUAPI.__init__, lines 73 and 78
Construct ==
    /\ upc = "new"
    /\ LET b == ResolveBaseUrl(arg_base_url, environ) IN
       IF b.kind = "raise"
       THEN upc' = "failed" /\ UNCHANGED <<_base_url, _api_version>>
       ELSE /\ upc' = "constructed"
            /\ _base_url' = b.value
            /\ _api_version' = get_api_version(arg_api_version, environ)
    /\ UNCHANGED <<client_vars, entity_vars, script_vars, arg_base_url, arg_api_version, environ, url>>

\* VUAPI._request, lines 87-89, for a call without base_url and api_version
BuildUrl ==
    /\ upc \in {"constructed", "built"}
    /\ \E path \in Paths :
          LET u == RequestUrl(_base_url, _api_version, path) IN
          /\ u.kind = "return"
          /\ url' = [v |-> u.value.v, path |-> path]
    /\ upc' = "built"
    /\ UNCHANGED <<client_vars, entity_vars, script_vars, arg_base_url, arg_api_version, environ,
                   _base_url, _api_version>>

NextURL == Construct \/ BuildUrl

SpecURL == InitURL /\ [][NextURL]_vars

\* the value the claim resolves the base URL from
BaseSource ==
    IF arg_base_url # None THEN arg_base_url.v
    ELSE IF environ.VU_API_BASE_URL # None THEN environ.VU_API_BASE_URL.v
    ELSE "http://localhost:8080"

EndsWithSlash(s) == Len(s) > 0 /\ SubSeq(s, Len(s), Len(s)) = "/"

\* C8: the base URL is the constructor argument if given, else the
\* environment's value, else the local default, with trailing slashes
\* stripped in each case, so every request URL is base_url + "/" +
\* api_version + path with exactly one slash between base URL and version.
C8_BaseUrlStripped ==
    /\ upc \in {"constructed", "built"} =>
          /\ ~EndsWithSlash(_base_url.v)
          /\ BaseSource \in {_base_url.v, _base_url.v \o "/", _base_url.v \o "//"}
    /\ upc = "built" =>
          url.v = _base_url.v \o "/" \o _api_version.v \o url.path

(***************************************************************************)
(* Two runs against the same answers: a first client executes an           *)
(* operation while the answers of the server are recorded, then a second   *)
(* client, constructed anew, is served the same answers.                   *)
(***************************************************************************)
InitScript ==
    /\ _retry \in 0..MaxRetry
    /\ _use_raw_data \in BOOLEAN
    /\ InitClient
    /\ NoEntity
    /\ NoURL
    /\ run = "first"
    /\ script = <<>>
    /\ http = <<>>
    /\ first = NoRun
    /\ twin = "none"

\* the first client calls an operation that pages or polls; the operations
\* treat all account ids alike, one is recorded
FirstRun ==
    /\ run = "first"
    /\ \/ Call_get_all_pages
       \/ list_portfolios
       \/ list_broker_accounts
       \/ cancel_rebalancing
       \/ Call_wait_for_account
    /\ op'.account_id # "a2"

\* what a second run may differ in: after cancel_rebalancing the operation
\* (rebalance_broker_account), after a polling operation of a client that
\* wraps entities the raw-data mode
Twins ==
    {t \in {"endpoint", "mode"} :
        \/ t = "endpoint" /\ op.name = "cancel_rebalancing"
        \/ t = "mode" /\ op.state \in RebalanceState /\ ~_use_raw_data}

\* the operation of the second run
TwinOp ==
    IF twin = "endpoint"
    THEN [first.op EXCEPT !.name = "rebalance_broker_account"]
    ELSE first.op

\* VUAPI.__init__ of the second client once the first run has ended
Reconstruct ==
    /\ run = "first" /\ pc = "done"
    /\ \E t \in Twins :
          /\ twin' = t
          /\ _use_raw_data' = IF t = "mode" THEN TRUE ELSE _use_raw_data
    /\ first' = [op |-> op, raw |-> _use_raw_data, http |-> http, result |-> result]
    /\ run' = "second"
    /\ http' = <<>>
    /\ op' = NoOp
    /\ pc' = "idle"
    /\ phase' = "none"
    /\ req' = NoRequest
    /\ retry' = 0
    /\ resp' = NoResponse
    /\ ret' = NoOutcome
    /\ log' = <<>>
    /\ sleeps' = 0
    /\ waited' = 0
    /\ page' = 0
    /\ total_pages' = 0
    /\ entities' = <<>>
    /\ fetched' = <<>>
    /\ reqs' = <<>>
    /\ poll_retry' = 0
    /\ account' = None
    /\ polls' = NoPolls
    /\ last_event' = "none"
    /\ result' = NoOutcome
    /\ UNCHANGED <<entity_vars, url_vars, _retry, script>>

\* the second client calls the twin operation with the same arguments
SecondRun ==
    /\ run = "second"
    /\ \/ rebalance_broker_account
       \/ cancel_rebalancing
       \/ Call_wait_for_account
    /\ op' = TwinOp

NextScript ==
    \/ FirstRun
    \/ Reconstruct
    \/ SecondRun
    \/ OneRequest
    \/ RetrySleep
    \/ PageReturn
    \/ TriggerReturn
    \/ PollSleep
    \/ FetchReturn

SpecScript == InitScript /\ [][NextScript]_vars

\* the requests of the second run so far are those the first run began with
SamePrefix ==
    /\ Len(http) <= Len(first.http)
    /\ \A i \in 1..Len(http) : http[i] = first.http[i]

\* the second run sends what the first run sent, no more and no less
SameRequests ==
    /\ SamePrefix
    /\ pc = "request" => Len(http) < Len(first.http)
    /\ pc = "done" => http = first.http

\* C11: cancel_rebalancing and rebalance_broker_account are observationally
\* identical: for the same account id and the same answers of the server
\* they send the same HTTP requests, a POST to /accounts/{id}/rebalance
\* followed by the same fetches of the account, and return the same result;
\* no request to an endpoint of cancel_rebalancing's own is ever sent.
C11_SameEndpoint ==
    /\ (op.name = "cancel_rebalancing" /\ http # <<>>) =>
          /\ http[1] = Opts("POST", "/accounts/" \o op.account_id \o "/rebalance", None)
          /\ \A i \in 2..Len(http) :
                http[i] = Opts("POST", "/accounts/" \o op.account_id \o "/rebalance", None)
                \/ http[i] = Opts("GET", "/accounts/" \o op.account_id, None)
    /\ (run = "second" /\ twin = "endpoint") =>
          /\ first.op.name = "cancel_rebalancing"
          /\ pc # "idle" =>
                /\ op.name = "rebalance_broker_account"
                /\ op.account_id = first.op.account_id
          /\ SameRequests
          /\ pc = "done" => result = first.result

C11_Witness ==
    /\ run = "second" /\ twin = "endpoint" /\ pc = "done"
    /\ op.name = "rebalance_broker_account"
    /\ result.kind = "return" /\ result.value # None
    /\ polls.fetches >= 2
    /\ Len(http) > 1 + polls.fetches

\* the configured retry count R, a negative one counting as 0
Budget == IF _retry < 0 THEN 0 ELSE _retry

\* a logical request has been issued and not yet handed back to the operation
InFlight == pc \in {"request", "retry_sleep", "returned"}

\* C12: the retry budget belongs to one logical request and is never carried
\* over: every page fetch of _get_all_pages and every account fetch of
\* _wait_for_account starts with the full retry count R whatever the earlier
\* requests consumed, a retried fetch counts as one page or one poll attempt,
\* a listing of P pages makes at most P*(R+1) HTTP attempts and a poll with
\* budget M at most M*(R+1) fetch attempts.
C12_BudgetPerRequest ==
    /\ (pc = "request" /\ log = <<>>) => retry = Budget
    /\ reqs # <<>> =>
          /\ retry + sleeps = Budget
          /\ Len(log) <= Budget + 1
          /\ Len(http) <= Len(reqs) * (Budget + 1)
    /\ op.name \in PagedOps =>
          /\ InFlight => Len(reqs) = page + 1
          /\ (pc = "done" /\ result.kind = "return") =>
                /\ Len(reqs) = page
                /\ Len(http) <= page * (Budget + 1)
    /\ op.name \in PollingOps =>
          /\ polls.sleeps <= op.budget
          /\ polls.fetches <= polls.sleeps
          /\ op.name = "_wait_for_account" =>
                /\ Len(reqs) = polls.sleeps
                /\ Len(http) <= op.budget * (Budget + 1)
          /\ op.name \in TriggeredOps =>
                /\ Len(reqs) = 1 + polls.sleeps
                /\ Len(http) <= (1 + op.budget) * (Budget + 1)

C12_Witness ==
    /\ op.name = "list_portfolios" /\ pc = "done" /\ result.kind = "return"
    /\ page = 2 /\ Budget >= 1
    /\ Len(http) = 2 * (Budget + 1)

\* the outcomes of the two runs agree: the same failure, or the same
\* snapshot returned raw by the one and wrapped by the other, or both absent
SameOutcome ==
    /\ result.kind = first.result.kind
    /\ result.kind = "raise" => result = first.result
    /\ result.kind = "return" =>
          SnapshotOf(result.value) = SnapshotOf(first.result.value)

\* C13: the outcome of the polling helper does not depend on the raw-data
\* mode: served the same answers, a client with raw_data enabled performs
\* the same fetches as one with raw_data disabled and returns the first
\* snapshot whose rebalance state equals the expected state, as raw data,
\* or an absent result on exhaustion, and raises nothing of its own.
C13_ModeIndependent ==
    (run = "second" /\ twin = "mode") =>
        /\ ~first.raw /\ _use_raw_data
        /\ SameRequests
        /\ pc = "done" =>
              /\ SameOutcome
              /\ result.exc # "AttributeError"
====
